---- MODULE Spec2Model ----
(***************************************************************************)
(* TWYA timeline (src/app.py): load_data -> clean_and_validate_data ->     *)
(* create_timeline_chart, driven by main.                                  *)
(*                                                                         *)
(* A table (DataFrame) is a record [columns, rows]: columns is the set of  *)
(* optional column labels the table carries, rows is the sequence of rows  *)
(* in positional order.  A row carries its index label idx and its cells.  *)
(* Chinese labels of the source are written in pinyin: the module is       *)
(* ASCII.  XingZhengZu is the first key of default_colors, ZhiXing and     *)
(* ChouBei are the two Level values, JinXingZhong is the status label      *)
(* that status_mapping sends to WIP.                                       *)
(*                                                                         *)
(* EventName is used as the identity of a record: the code never reads it  *)
(* in load_data or clean_and_validate_data, so giving every record of a    *)
(* snapshot a distinct name loses no behaviour.  Notes, StartTime and      *)
(* EndTime (and the HasStartTime / HasEndTime flags derived from them) do  *)
(* not influence which rows survive, their dates, their order or their     *)
(* lane, and are left out.  load_data removes the rows whose cells are all *)
(* missing (dropna(how='all')); every row here has a name, so none is.     *)
(* The cells of a column the table does not carry are missing (NaN).       *)
(*                                                                         *)
(* Time is counted in days.  clock is the reading datetime.now() returns;  *)
(* the two readings one chart call makes are microseconds apart and are    *)
(* taken as one.                                                           *)
(***************************************************************************)
EXTENDS Integers, Sequences, FiniteSets, TLC

VARIABLES sheet, nan_lookup, clock, pc, df, error, df_clean, metrics,
          selected, fig, full_legend, seen

vars == <<sheet, nan_lookup, clock, pc, df, error, df_clean, metrics,
          selected, fig, full_legend, seen>>

-----------------------------------------------------------------------------
(* Bounds *)

MaxRows == 2

MaxDay == 2

\* The number of days the clock advances during a session.
MaxTicks == 1

-----------------------------------------------------------------------------
(* Cell values *)

\* A missing cell of a text column (pandas NaN / None).
NaN == "NaN"

\* A missing timestamp (pandas NaT), the result of a failed coercion.
NaT == -1

\* Raw date cells: Blank is an empty cell, Unparsable is text that is no
\* date, d in 1..MaxDay is text that reads as calendar day d.
Blank == -1

Unparsable == -2

Days == 1..MaxDay

\* Python orders str by code point: the ASCII names sort before the
\* Chinese one.  TeamOrder lists the team names of the model in that order.
TeamOrder == <<"A", "B", "XingZhengZu">>

TeamRank(t) == CHOOSE i \in 1..Len(TeamOrder) : TeamOrder[i] = t

Max(a, b) == IF a >= b THEN a ELSE b

EmptyDF == [columns |-> {}, rows |-> <<>>]

-----------------------------------------------------------------------------
(* load_data *)

\* Mutant: status_mapping.get(x, 'ToDo'), a closed vocabulary.
status_mapping_Closed(x) ==
    CASE x = "WeiKaiShi" -> "ToDo"
      [] x = "JinXingZhong" -> "WIP"
      [] x = "YiWanCheng" -> "Done"
      [] x = "WanCheng" -> "Done"
      [] x = "ZuSe" -> "Blocked"
      [] x = "ZanTing" -> "Pending"
      [] OTHER -> "ToDo"

status_mapping(x) ==
    CASE x = "WeiKaiShi" -> "ToDo"
      [] x = "JinXingZhong" -> "WIP"
      [] x = "YiWanCheng" -> "Done"
      [] x = "WanCheng" -> "Done"
      [] x = "ZuSe" -> "Blocked"
      [] x = "ZanTing" -> "Pending"
      [] OTHER -> x

\* df['Status'].map(lambda x: status_mapping.get(x, x) if pd.notna(x) else x)
MapStatus(rows) ==
    [i \in 1..Len(rows) |->
        [rows[i] EXCEPT !.Status = IF @ # NaN THEN status_mapping(@) ELSE @]]

\* The table load_data returns when the fetch succeeds (lines 311-339):
\* the statuses are mapped if the table has a Status column.
load_data(src) ==
    [columns |-> src.columns,
     rows |-> IF "Status" \in src.columns THEN MapStatus(src.rows)
                                          ELSE src.rows]

\* The pair (df, error) of load_data: (table, None) or, when the fetch
\* raised, (None, error_msg).  EmptyDF stands for the None of the pair;
\* main reads both as 'df is None or df.empty'.
LoadOutcome(loaded, src) ==
    IF loaded THEN [df |-> load_data(src), error |-> "None"]
              ELSE [df |-> EmptyDF, error |-> "error"]

-----------------------------------------------------------------------------
(* clean_and_validate_data *)

\* Lines 398-410: an optional column the table does not carry is created
\* with its default in every row.
AddOptionalColumns(t) ==
    [columns |-> t.columns \cup {"Level", "Status"},
     rows |-> [i \in 1..Len(t.rows) |->
                 [t.rows[i] EXCEPT
                    !.Level = IF "Level" \in t.columns THEN @ ELSE "ZhiXing",
                    !.Status = IF "Status" \in t.columns THEN @ ELSE "ToDo"]]]

\* fillna on Level and Status (lines 413-414).
FillDefaults(rows) ==
    [i \in 1..Len(rows) |->
        [rows[i] EXCEPT !.Level = IF @ = NaN THEN "ZhiXing" ELSE @,
                        !.Status = IF @ = NaN THEN "ToDo" ELSE @]]

\* pd.to_datetime(errors='coerce') on one cell.
to_datetime(x) == IF x \in Days THEN x ELSE NaT

ToDatetimeCols(rows) ==
    [i \in 1..Len(rows) |->
        [rows[i] EXCEPT !.StartDate = to_datetime(@),
                        !.EndDate = to_datetime(@)]]

mask_no_start(r) == r.StartDate = NaT /\ r.EndDate # NaT

\* pd.Timedelta(days=1)
DeadlineDays == 1

\* Lines 425-435: start synthesis and the EventType column.
SynthDeadline(t) ==
    LET any == \E i \in 1..Len(t.rows) : mask_no_start(t.rows[i])
        \* 'EventType' not in df_clean.columns: the column is created 'normal'
        created == [i \in 1..Len(t.rows) |->
                      IF "EventType" \in t.columns
                        THEN t.rows[i]
                        ELSE [t.rows[i] EXCEPT !.EventType = "normal"]]
    IN  [columns |-> t.columns \cup {"EventType"},
         rows |-> [i \in 1..Len(t.rows) |->
                     IF any /\ mask_no_start(t.rows[i])
                       THEN [created[i] EXCEPT
                               !.StartDate = t.rows[i].EndDate - DeadlineDays,
                               !.EventType = "deadline"]
                       ELSE created[i]]]

\* Mutant: dropna(subset=['StartDate', 'EndDate'], how='all'), which drops
\* only the records without any date.
DropNoEnd_NoDateAtAll(rows) ==
    SelectSeq(rows, LAMBDA r : r.StartDate # NaT \/ r.EndDate # NaT)

\* Mutant: nothing is dropped.
DropNoEnd_Nothing(rows) == rows

\* dropna(subset=['EndDate'])
DropNoEnd(rows) == SelectSeq(rows, LAMBDA r : r.EndDate # NaT)

\* A comparison with NaT is False.
DateLess(a, b) == a # NaT /\ b # NaT /\ a < b

\* Mutant: the repair is left out.
SwapRepair_None(rows) == rows

\* Mutant: the two assignments made one after the other, so that the
\* second reads the value the first wrote.
SwapRepair_Sequential(rows) ==
    [i \in 1..Len(rows) |->
        IF DateLess(rows[i].EndDate, rows[i].StartDate)
          THEN [rows[i] EXCEPT !.StartDate = rows[i].EndDate]
          ELSE rows[i]]

\* Lines 441-444.
SwapRepair(rows) ==
    [i \in 1..Len(rows) |->
        IF DateLess(rows[i].EndDate, rows[i].StartDate)
          THEN [rows[i] EXCEPT !.StartDate = rows[i].EndDate,
                               !.EndDate = rows[i].StartDate]
          ELSE rows[i]]

\* sort_values keys: missing values are placed last (na_position='last').
TeamKey(t) == IF t = NaN THEN Len(TeamOrder) + 1 ELSE TeamRank(t)

DateKey(d) == IF d = NaT THEN MaxDay + 1 ELSE d

\* Mutant: sort_values(['Team']).
KeyLess_TeamOnly(a, b) == TeamKey(a.Team) < TeamKey(b.Team)

KeyLess(a, b) ==
    \/ TeamKey(a.Team) < TeamKey(b.Team)
    \/ /\ TeamKey(a.Team) = TeamKey(b.Team)
       /\ DateKey(a.StartDate) < DateKey(b.StartDate)

\* Mutant: an insertion in front of the rows of equal key (not stable).
RECURSIVE InsertStable_BeforeEqual(_, _)
InsertStable_BeforeEqual(s, r) ==
    IF s = <<>> THEN <<r>>
    ELSE IF ~KeyLess(Head(s), r) THEN <<r>> \o s
    ELSE <<Head(s)>> \o InsertStable_BeforeEqual(Tail(s), r)

\* Insert r behind every row whose key is not greater (stable).
RECURSIVE InsertStable(_, _)
InsertStable(s, r) ==
    IF s = <<>> THEN <<r>>
    ELSE IF KeyLess(r, Head(s)) THEN <<r>> \o s
    ELSE <<Head(s)>> \o InsertStable(Tail(s), r)

RECURSIVE SortFrom(_, _)
SortFrom(done, rest) ==
    IF rest = <<>> THEN done
    ELSE SortFrom(InsertStable(done, Head(rest)), Tail(rest))

\* sort_values(['Team', 'StartDate'], ascending=[True, True])
sort_values(rows) == SortFrom(<<>>, rows)

\* Mutant: the index labels of the input are kept.
reset_index_Kept(rows) == rows

\* Mutant: the labels go on from those of the table of the run before.
reset_index_Continue(rows) ==
    [i \in 1..Len(rows) |->
        [rows[i] EXCEPT !.idx = Len(df_clean.rows) + i - 1]]

\* reset_index(drop=True)
reset_index(rows) == [i \in 1..Len(rows) |-> [rows[i] EXCEPT !.idx = i - 1]]

clean_and_validate_data(t) ==
    LET added  == AddOptionalColumns(t)
        filled == FillDefaults(added.rows)
        dated  == ToDatetimeCols(filled)
        typed  == SynthDeadline([columns |-> added.columns, rows |-> dated])
        kept   == DropNoEnd(typed.rows)
        fixed  == SwapRepair(kept)
    IN  [columns |-> typed.columns,
         rows |-> reset_index(sort_values(fixed))]

-----------------------------------------------------------------------------
(* Snapshots *)

\* The cells of one raw row.
Cell(team, sd, ed, st, lv, et) ==
    [Team |-> team, StartDate |-> sd, EndDate |-> ed, Status |-> st,
     Level |-> lv, EventType |-> et]

\* Rows that vary in team and in the two date cells.
DateCells ==
    {Cell(team, sd, ed, NaN, NaN, NaN) :
        team \in {"A", "B", NaN},
        sd \in Days \cup {Blank},
        ed \in Days \cup {Blank, Unparsable}}

\* Rows of a table that arrives with an EventType column of its own.
TypedCells ==
    {Cell("A", sd, ed, NaN, NaN, et) :
        sd \in Days \cup {Blank},
        ed \in Days \cup {Blank},
        et \in {NaN, "deadline"}}

\* The table read from the source: row i gets index label i - 1 (a
\* RangeIndex) and the name i; cols are the optional columns it carries.
RawTable(cols, cells) ==
    [columns |-> cols,
     rows |-> [i \in 1..Len(cells) |->
                 [idx |-> i - 1, EventName |-> i, Team |-> cells[i].Team,
                  StartDate |-> cells[i].StartDate,
                  EndDate |-> cells[i].EndDate,
                  Status |-> IF "Status" \in cols THEN cells[i].Status ELSE NaN,
                  Level |-> IF "Level" \in cols THEN cells[i].Level ELSE NaN,
                  EventType |-> IF "EventType" \in cols
                                  THEN cells[i].EventType ELSE NaN]]]

-----------------------------------------------------------------------------
(* get_team_color_mapping *)

DefaultTeams ==
    {"XingZhengZu", "HuoDongZu", "GongGuanZu", "CaiWuZu", "JiaoYuZu",
     "ZiXunZu", "QiHuaZu", "YanFaZu", "LiShiZhang"}

default_colors(t) ==
    CASE t = "XingZhengZu" -> "#1E88E5"
      [] t = "HuoDongZu" -> "#43A047"
      [] t = "GongGuanZu" -> "#E53935"
      [] t = "CaiWuZu" -> "#FB8C00"
      [] t = "JiaoYuZu" -> "#8E24AA"
      [] t = "ZiXunZu" -> "#00ACC1"
      [] t = "QiHuaZu" -> "#F9A825"
      [] t = "YanFaZu" -> "#5E35B1"
      [] t = "LiShiZhang" -> "#C62828"

plotly_colors ==
    <<"#1E88E5", "#43A047", "#E53935", "#FB8C00", "#8E24AA",
      "#00ACC1", "#F9A825", "#5E35B1", "#00897B", "#D81B60">>

\* teams.unique() of a rows sequence.
TeamsOf(rows) == {rows[i].Team : i \in 1..Len(rows)}

\* sorted() compares a float NaN with a str: TypeError.
SortedRaises(teams) == NaN \in teams /\ teams # {NaN}

\* The zero-based position of team in sorted(teams).
SortedPos(teams, team) ==
    Cardinality({u \in teams : TeamKey(u) < TeamKey(team)})

\* Lines 491-498, for a set of teams on which sorted() does not raise.
get_team_color_mapping(teams) ==
    [team \in teams |->
        IF team \in DefaultTeams
          THEN default_colors(team)
          ELSE plotly_colors[(SortedPos(teams, team) % Len(plotly_colors)) + 1]]

-----------------------------------------------------------------------------
(* create_timeline_chart *)

NoTraces == <<>>

NoLegend == [t \in {} |-> ""]

\* The figure: the event traces, the legend entries, the 'today' line
\* (x0 = x1 = today, y0 = -0.5, y1 = n - 0.5, kept as twice its value), the
\* 'today' label at y = n, the height and the initial x range.
Figure(kind, traces, legend, n, height, today, range) ==
    [kind |-> kind, traces |-> traces, legend |-> legend, today |-> today,
     today_y1_x2 |-> 2 * n - 1, today_label_y |-> n,
     height |-> height, range |-> range]

\* A call that returned None or raised: there is no figure.
NoFigure(kind) ==
    [kind |-> kind, traces |-> NoTraces, legend |-> NoLegend, today |-> 0,
     today_y1_x2 |-> 0, today_label_y |-> 0, height |-> 0, range |-> <<0, 0>>]

NoFig == NoFigure("unset")

\* Lines 531-538: a selection that is empty does not restrict.
Matches(r, sel) ==
    /\ sel.teams = {} \/ r.Team \in sel.teams
    /\ sel.status = {} \/ r.Status \in sel.status
    /\ sel.levels = {} \/ r.Level \in sel.levels

FilterRows(rows, sel) == SelectSeq(rows, LAMBDA r : Matches(r, sel))

\* Mutant: get_team_color_mapping(df_filtered['Team']).
ColorSource_Filtered(rows, filtered) == TeamsOf(filtered)

\* The Team column from which the colours are computed (line 544).
ColorSource(rows, filtered) == TeamsOf(rows)

\* Lines 550-630: one trace per filtered row, at y = its index label.
Trace(r, color_mapping) ==
    [x0 |-> r.StartDate, x1 |-> r.EndDate, y |-> r.idx, name |-> r.Team,
     EventName |-> r.EventName, color |-> color_mapping[r.Team],
     dash |-> IF r.EventType = "deadline" THEN "dot" ELSE "solid"]

\* Mutant: the chart is built also when no row is left.
ShortCircuit_Never(filtered) == FALSE

\* Lines 540-541: df_filtered.empty returns None.
ShortCircuit(filtered) == filtered = <<>>

\* Mutant: df['EndDate'].max(), the latest end of the whole collection.
ViewportRows_Full(rows, filtered) == rows

\* The rows whose latest end is the upper bound of the range (line 682).
ViewportRows(rows, filtered) == filtered

\* EndDate.max(): NaT for a column without values.
RECURSIVE MaxEnd(_)
MaxEnd(rows) ==
    IF rows = <<>> THEN NaT
    ELSE Max(rows[1].EndDate, MaxEnd(Tail(rows)))

MinHeight == 400

MaxHeight == 800

ItemHeight == 50

Lookback == 30

chart_height(n) == Max(MinHeight, IF n * ItemHeight <= MaxHeight
                                    THEN n * ItemHeight ELSE MaxHeight)

\* nan_is_key: whether the NaN read back from a row is the very object
\* that is the key of color_mapping (a dict finds a NaN by identity only).
create_timeline_chart(t, sel, now, nan_is_key) ==
    LET df_filtered == FilterRows(t.rows, sel)
        source == ColorSource(t.rows, df_filtered)
    IN  IF ShortCircuit(df_filtered)
          THEN NoFigure("None")
        ELSE IF SortedRaises(source)
          THEN NoFigure("TypeError")
        ELSE IF \/ TeamsOf(df_filtered) \ source # {}
                \/ NaN \in TeamsOf(df_filtered) /\ ~nan_is_key
          THEN NoFigure("KeyError")
        ELSE LET color_mapping == get_team_color_mapping(source)
             IN  Figure("figure",
                        [i \in 1..Len(df_filtered) |->
                            Trace(df_filtered[i], color_mapping)],
                        [team \in TeamsOf(df_filtered) |-> color_mapping[team]],
                        Len(df_filtered),
                        chart_height(Len(df_filtered)),
                        now,
                        <<now - Lookback,
                          MaxEnd(ViewportRows(t.rows, df_filtered))>>)

-----------------------------------------------------------------------------
(* main *)

NoMetrics == [k \in {} |-> 0]

NoSelection == [set |-> FALSE, teams |-> {}, status |-> {}, levels |-> {}]

\* st.metric calls of lines 886-899 (nunique does not count NaN).
Stats(rows) ==
    [k \in {"total", "teams", "Done", "WIP", "ToDo"} |->
        CASE k = "total" -> Len(rows)
          [] k = "teams" -> Cardinality(TeamsOf(rows) \ {NaN})
          [] OTHER -> Cardinality({i \in 1..Len(rows) : rows[i].Status = k})]

\* The options of the three multiselect widgets (lines 905-907).
Options(rows) ==
    [set |-> TRUE, teams |-> TeamsOf(rows),
     status |-> {rows[i].Status : i \in 1..Len(rows)},
     levels |-> {rows[i].Level : i \in 1..Len(rows)}]

\* The clock reading at the start of a session, in days.
Now0 == 40

\* A NaN cell read back from a row may or may not be the object that
\* teams.unique() returned, depending on how the column of the table is
\* stored; tables without a NaN team have no such choice.
KeyChoices(rows) == IF NaN \in TeamsOf(rows) THEN BOOLEAN ELSE {TRUE}

\* Mutant: the run goes on after a failed load.
StopsOnError_Never(e) == FALSE

\* Lines 861-872: 'if error: ... return'.
StopsOnError(e) == e # "None"

NoSeen == [selected |-> NoSelection, fig |-> NoFig]

Stopped(where, d, e, c, m) ==
    /\ pc' = where
    /\ df' = d
    /\ error' = e
    /\ df_clean' = c
    /\ metrics' = m
    /\ fig' = NoFig
    /\ UNCHANGED <<selected, full_legend, seen>>

\* One run of the script main, top to bottom.  loaded: whether the fetch
\* of load_data succeeded; sel: the values the widgets hold (not set: they
\* are created with their defaults, every option selected).  seen keeps
\* the selection and the figure of a chart drawn at an earlier clock
\* reading that this run replaces.
main(loaded, sel) ==
    \E res \in {LoadOutcome(loaded, sheet)} :
    IF StopsOnError(res.error)
      THEN Stopped("load error", res.df, res.error, EmptyDF, NoMetrics)
    ELSE IF res.df.rows = <<>>
      THEN Stopped("no data", res.df, res.error, EmptyDF, NoMetrics)
    ELSE \E c \in {clean_and_validate_data(res.df)} :
    IF c.rows = <<>>
      THEN Stopped("no valid data", res.df, res.error, c, NoMetrics)
    ELSE IF SortedRaises(TeamsOf(c.rows))
      THEN Stopped("TypeError", res.df, res.error, c, Stats(c.rows))
    ELSE \E s \in {IF sel.set THEN sel ELSE Options(c.rows)} :
         \E f \in {create_timeline_chart(c, s, clock, nan_lookup)} :
             /\ df' = res.df
             /\ error' = res.error
             /\ df_clean' = c
             /\ metrics' = Stats(c.rows)
             /\ selected' = s
             /\ fig' = f
             /\ pc' = CASE f.kind = "figure" -> "rendered"
                        [] f.kind = "None" -> "no match"
                        [] OTHER -> f.kind
             /\ full_legend' = IF ~sel.set /\ f.kind = "figure"
                               THEN f.legend ELSE full_legend
             /\ seen' = IF pc = "rendered" /\ fig.today # clock
                          THEN [selected |-> selected, fig |-> fig]
                          ELSE seen

InitCommon ==
    /\ nan_lookup \in KeyChoices(sheet.rows)
    /\ clock = Now0
    /\ pc = "start"
    /\ df = EmptyDF
    /\ error = "None"
    /\ df_clean = EmptyDF
    /\ metrics = NoMetrics
    /\ selected = NoSelection
    /\ fig = NoFig
    /\ full_legend = NoLegend
    /\ seen = NoSeen

\* The first run of a session.
FirstRun ==
    /\ pc = "start"
    /\ \E loaded \in BOOLEAN : main(loaded, selected)
    /\ UNCHANGED <<sheet, nan_lookup, clock>>

\* The reload button (lines 783-785): the script runs again, the widgets
\* keep their values.
Reload ==
    /\ pc # "start"
    /\ \E loaded \in BOOLEAN : main(loaded, selected)
    /\ UNCHANGED <<sheet, nan_lookup, clock>>

Toggle(set, x) == IF x \in set THEN set \ {x} ELSE set \cup {x}

\* The user adds or removes one option in one of the multiselect widgets
\* of a page that shows them: the script runs again with the new values.
Select ==
    /\ pc \in {"rendered", "no match", "KeyError"}
    /\ LET opt == Options(df_clean.rows) IN
       \E w \in {"teams", "status", "levels"} :
       \E x \in opt[w] :
       \E loaded \in BOOLEAN :
          main(loaded, [selected EXCEPT ![w] = Toggle(@, x)])
    /\ UNCHANGED <<sheet, nan_lookup, clock>>

\* A day passes between two runs.
Tick ==
    /\ clock < Now0 + MaxTicks
    /\ clock' = clock + 1
    /\ UNCHANGED <<sheet, nan_lookup, pc, df, error, df_clean, metrics,
                   selected, fig, full_legend, seen>>

-----------------------------------------------------------------------------
(* Snapshots and specifications *)

\* Rows that vary in team and in one of three profiles: a deadline with
\* the default status and category, a ranged event in progress, and a
\* preparation event entered with its dates reversed.
Profiles ==
    {<<Blank, 1, NaN, NaN>>,
     <<1, 2, "JinXingZhong", NaN>>,
     <<2, 1, NaN, "ChouBei">>}

FilterCells ==
    {Cell(team, p[1], p[2], p[3], p[4], NaN) :
        team \in {"A", "B", "XingZhengZu", NaN}, p \in Profiles}

InitClean ==
    /\ \E n \in 0..MaxRows :
          \/ \E cells \in [1..n -> DateCells] : sheet = RawTable({}, cells)
          \/ \E cells \in [1..n -> TypedCells] :
                sheet = RawTable({"EventType"}, cells)
    /\ InitCommon

NextClean == FirstRun \/ Reload

SpecClean == InitClean /\ [][NextClean]_vars

Init ==
    /\ \E n \in 0..MaxRows :
          \E cells \in [1..n -> FilterCells] :
              sheet = RawTable({"Status", "Level"}, cells)
    /\ InitCommon

Next == FirstRun \/ Reload \/ Select

Spec == Init /\ [][Next]_vars

\* Sessions in which the clock advances: rows of a team or of none, a
\* deadline that ends on day 1 with the default status, or a ranged event
\* in progress that ends on day 2.
TimeProfiles ==
    {<<Blank, 1, NaN, NaN>>,
     <<1, 2, "JinXingZhong", NaN>>}

TimeCells ==
    {Cell(team, p[1], p[2], p[3], p[4], NaN) :
        team \in {"A", NaN}, p \in TimeProfiles}

InitTime ==
    /\ \E n \in 0..MaxRows :
          \E cells \in [1..n -> TimeCells] :
              sheet = RawTable({"Status", "Level"}, cells)
    /\ InitCommon

NextTime == FirstRun \/ Reload \/ Select \/ Tick

SpecTime == InitTime /\ [][NextTime]_vars

\* Tables that vary in the Status cells: the labels of status_mapping, the
\* canonical values, a label of neither kind, an empty cell; and tables
\* without a Status column.
StatusValues ==
    {"WeiKaiShi", "JinXingZhong", "YiWanCheng", "WanCheng", "ZuSe", "ZanTing",
     "ToDo", "WIP", "Done", "Blocked", "Pending", "QuXiao", NaN}

StatusCells == {Cell("A", 1, 2, st, NaN, NaN) : st \in StatusValues}

InitStatus ==
    /\ \E n \in 0..MaxRows :
          \/ \E cells \in [1..n -> StatusCells] :
                sheet = RawTable({"Status"}, cells)
          \/ \E cells \in [1..n -> {Cell("A", 1, 2, NaN, NaN, NaN)}] :
                sheet = RawTable({}, cells)
    /\ InitCommon

SpecStatus == InitStatus /\ [][NextClean]_vars

-----------------------------------------------------------------------------
(* Vocabulary of the properties *)

\* clean_and_validate_data has run on df and df_clean holds its result.
Cleaned == pc \in {"no valid data", "TypeError", "rendered", "no match", "KeyError"}

In == df.rows

Out == df_clean.rows

\* The input record an output event comes from (EventName is the position
\* of the record in the input).
Origin(e) == In[e.EventName]

Resolvable(x) == to_datetime(x) # NaT

InOutput(i) == \E j \in 1..Len(Out) : Out[j].EventName = In[i].EventName

NumDropped == Cardinality({i \in 1..Len(In) : ~InOutput(i)})

Min(a, b) == IF a <= b THEN a ELSE b

-----------------------------------------------------------------------------
(* C1 *)

\* The team order the sort contract names: lexicographic on the team string,
\* a record without a team having the empty string, which is below every
\* name.
LexTeamKey(t) == IF t = NaN THEN 0 ELSE TeamRank(t)

\* C1 as stated: the output of clean_and_validate_data is sorted by team
\* ascending, then start ascending: consecutive events i, i+1 have
\* team[i] < team[i+1], or equal teams and start[i] <= start[i+1].
C1_SortedLexicographic ==
    Cleaned =>
        \A i \in 1..(Len(Out) - 1) :
            \/ LexTeamKey(Out[i].Team) < LexTeamKey(Out[i + 1].Team)
            \/ /\ Out[i].Team = Out[i + 1].Team
               /\ Out[i].StartDate <= Out[i + 1].StartDate

\* C1 amended: the output is sorted by team ascending with the records
\* that have no team after every record that has one, then by start
\* ascending (also among the records without a team).
C1_SortedMissingTeamLast ==
    Cleaned =>
        \A i \in 1..(Len(Out) - 1) :
            \/ /\ Out[i].Team # NaN
               /\ Out[i + 1].Team # NaN
               /\ TeamRank(Out[i].Team) < TeamRank(Out[i + 1].Team)
            \/ Out[i].Team # NaN /\ Out[i + 1].Team = NaN
            \/ /\ Out[i].Team = Out[i + 1].Team
               /\ Out[i].StartDate <= Out[i + 1].StartDate

\* The sort moved a record in front of one that preceded it in the input,
\* and a record without a team is in the output behind one with a team.
C1_Witness ==
    /\ Cleaned
    /\ Len(Out) = 2
    /\ Out[1].EventName > Out[2].EventName
    /\ Out[1].Team # NaN
    /\ Out[2].Team = NaN

-----------------------------------------------------------------------------
(* C2 *)

\* C2: every output event has EndDate >= StartDate, and a record whose
\* source start is later than its source end is in the output (repaired,
\* not removed).
C2_EndNotBeforeStart ==
    Cleaned =>
        /\ \A j \in 1..Len(Out) :
              /\ Out[j].StartDate # NaT
              /\ Out[j].EndDate # NaT
              /\ Out[j].EndDate >= Out[j].StartDate
        /\ \A i \in 1..Len(In) :
              (/\ Resolvable(In[i].StartDate)
               /\ Resolvable(In[i].EndDate)
               /\ to_datetime(In[i].EndDate) < to_datetime(In[i].StartDate))
              => InOutput(i)

\* An inverted record and a deadline record are both in the output.
C2_Witness ==
    /\ Cleaned
    /\ \E j \in 1..Len(Out) :
          /\ Resolvable(Origin(Out[j]).StartDate)
          /\ to_datetime(Origin(Out[j]).EndDate) < to_datetime(Origin(Out[j]).StartDate)
    /\ \E j \in 1..Len(Out) : ~Resolvable(Origin(Out[j]).StartDate)

-----------------------------------------------------------------------------
(* C3 *)

-----------------------------------------------------------------------------
(* C6 *)

-----------------------------------------------------------------------------
(* C7 *)

\* C7: a record with both dates and end < start is output with the two
\* dates exchanged; with end >= start both dates are output as they are;
\* team, name, status and category are those of the (defaulted) record.
C7_SwapExact ==
    Cleaned =>
        \A j \in 1..Len(Out) :
            LET o == Origin(Out[j])
                sd == to_datetime(o.StartDate)
                ed == to_datetime(o.EndDate)
            IN  sd # NaT =>
                  /\ ed < sd => Out[j].StartDate = ed /\ Out[j].EndDate = sd
                  /\ ed >= sd => Out[j].StartDate = sd /\ Out[j].EndDate = ed
                  /\ Out[j].Team = o.Team
                  /\ Out[j].Status = IF o.Status = NaN THEN "ToDo" ELSE o.Status
                  /\ Out[j].Level = IF o.Level = NaN THEN "ZhiXing" ELSE o.Level

\* An inverted record is in the output with two different dates.
C7_Witness ==
    /\ Cleaned
    /\ \E j \in 1..Len(Out) :
          /\ Resolvable(Origin(Out[j]).StartDate)
          /\ to_datetime(Origin(Out[j]).EndDate) < to_datetime(Origin(Out[j]).StartDate)
          /\ Out[j].StartDate < Out[j].EndDate

-----------------------------------------------------------------------------
(* C8 *)

\* C8: two surviving events with the same team and the same start (after
\* repair) are output in the order they have in the input.
C8_StableSort ==
    Cleaned =>
        \A j, k \in 1..Len(Out) :
            (/\ j < k
             /\ Out[j].Team = Out[k].Team
             /\ Out[j].StartDate = Out[k].StartDate)
            => Out[j].EventName < Out[k].EventName

\* Two events tie on team and start, one of them only after its dates were
\* exchanged.
C8_Witness ==
    /\ Cleaned
    /\ Len(Out) = 2
    /\ Out[1].Team = Out[2].Team
    /\ Out[1].StartDate = Out[2].StartDate
    /\ \E j \in 1..2 : Out[j].StartDate # to_datetime(Origin(Out[j]).StartDate)

-----------------------------------------------------------------------------
(* C10 *)

-----------------------------------------------------------------------------
(* C4 *)

\* Whether the selection held by the widgets admits event r.
Selected(r) ==
    /\ selected.teams # {} => r.Team \in selected.teams
    /\ selected.status # {} => r.Status \in selected.status
    /\ selected.levels # {} => r.Level \in selected.levels

\* C4: for every cleaned collection and every selection, a chart call
\* returns, and the events it draws are exactly the events of the
\* collection whose team, status and category are in the selected sets (an
\* empty or unspecified set not restricting), in the order of the
\* collection, each at the lane (index) it has in the unfiltered
\* collection; no chart is drawn only when no event is selected.
C4_FilterExact ==
    (Cleaned /\ Out # <<>>) =>
        /\ pc \in {"rendered", "no match"}
        /\ \A j \in 1..Len(Out) :
              Selected(Out[j]) <=>
                  \E a \in 1..Len(fig.traces) :
                      /\ fig.traces[a].EventName = Out[j].EventName
                      /\ fig.traces[a].y = j - 1
        /\ \A a, b \in 1..Len(fig.traces) :
              a < b => fig.traces[a].y < fig.traces[b].y
        /\ \A a \in 1..Len(fig.traces) :
              \E j \in 1..Len(Out) : fig.traces[a].y = j - 1

-----------------------------------------------------------------------------
(* C5 *)

\* C5: a team displayed under a filter selection has the colour it has in
\* the unfiltered chart of the same snapshot (so the same colour under any
\* two selections), and every trace is drawn in the colour of its team.
C5_ColorStable ==
    pc = "rendered" =>
        /\ \A t \in DOMAIN fig.legend :
              t \in DOMAIN full_legend => fig.legend[t] = full_legend[t]
        /\ full_legend # NoLegend => DOMAIN fig.legend \subseteq DOMAIN full_legend
        /\ \A a \in 1..Len(fig.traces) :
              fig.traces[a].color = fig.legend[fig.traces[a].name]

\* A filtered chart that shows a team coloured from the fallback palette
\* while a team that sorts before it is hidden.
C5_Witness ==
    /\ pc = "rendered"
    /\ "B" \in DOMAIN fig.legend
    /\ "A" \notin DOMAIN fig.legend
    /\ "A" \in DOMAIN full_legend

-----------------------------------------------------------------------------
(* C9 *)

\* C9: the lane index of the event at position i of the sorted collection
\* is i (zero-based), so the indices are 0..n-1 without repeats, and the
\* lanes of any chart are pairwise distinct and increase along the sorted
\* sequence.
C9_LaneIsPosition ==
    /\ Cleaned => \A j \in 1..Len(Out) : Out[j].idx = j - 1
    /\ pc = "rendered" =>
          \A a, b \in 1..Len(fig.traces) :
              a < b =>
                 /\ fig.traces[a].y < fig.traces[b].y
                 /\ \E j, k \in 1..Len(Out) :
                       /\ j < k
                       /\ Out[j].EventName = fig.traces[a].EventName
                       /\ Out[k].EventName = fig.traces[b].EventName

\* The sort moved the second input record to the front, and a filtered
\* chart draws a later event only.
C9_Witness ==
    /\ pc = "rendered"
    /\ Len(Out) = 2
    /\ Out[1].EventName = 2
    /\ Len(fig.traces) = 1
    /\ fig.traces[1].y = 1

-----------------------------------------------------------------------------
(* C11 *)

Palette == {plotly_colors[i] : i \in 1..Len(plotly_colors)}

\* C11: the pass clean_and_validate_data -> filter ->
\* get_team_color_mapping -> chart construction never raises on a
\* data-quality problem: a record without a team (alone or beside records
\* with a team) survives the cleaning and, when selected, is drawn in a
\* colour of the palette like any other record.
C11_MissingTeamTolerated ==
    (Cleaned /\ Out # <<>>) =>
        /\ pc \notin {"TypeError", "KeyError"}
        /\ \A i \in 1..Len(In) :
              (In[i].Team = NaN /\ Resolvable(In[i].EndDate)) => InOutput(i)
        /\ \A j \in 1..Len(Out) :
              (Out[j].Team = NaN /\ Selected(Out[j])) =>
                  \E a \in 1..Len(fig.traces) :
                      /\ fig.traces[a].EventName = Out[j].EventName
                      /\ fig.traces[a].color \in Palette

-----------------------------------------------------------------------------
(* C12 *)

\* Two consecutive runs of the pipeline on the same snapshot (sheet never
\* changes) with the same three selection sets.
SameSelectionRerun == Cleaned /\ Cleaned' /\ selected' = selected

ReproducesSeen ==
    (pc = "rendered" /\ seen.fig.kind = "figure" /\ seen.selected = selected)
    => /\ fig.traces = seen.fig.traces
       /\ fig.legend = seen.fig.legend
       /\ fig.range[2] = seen.fig.range[2]
       /\ fig.range[1] - seen.fig.range[1] = fig.today - seen.fig.today

-----------------------------------------------------------------------------
(* C13 *)

\* C13: the viewport of a chart is [now - 30 days, latest end among the
\* selected events], now being the clock reading of the run that drew it:
\* the upper bound is an end of a selected event that no selected event
\* exceeds, the lower bound is a function of the clock alone.
C13_Viewport ==
    pc = "rendered" =>
        /\ fig.today \in Now0..clock
        /\ fig.range[1] = fig.today - Lookback
        /\ \E j \in 1..Len(Out) :
              Selected(Out[j]) /\ Out[j].EndDate = fig.range[2]
        /\ \A j \in 1..Len(Out) :
              Selected(Out[j]) => Out[j].EndDate <= fig.range[2]

\* A chart drawn after the clock advanced, of a selection that hides the
\* event with the latest end.
C13_Witness ==
    /\ pc = "rendered"
    /\ fig.today > Now0
    /\ \E j \in 1..Len(Out) : Out[j].EndDate > fig.range[2]

-----------------------------------------------------------------------------
(* C14 *)

\* The status cell of the source record of an output event.
SourceStatus(e) == sheet.rows[e.EventName].Status

\* C14: after load_data and clean_and_validate_data the status of a record
\* is the canonical value of its source label if the label is in the
\* translation table, the source value itself if that is canonical or any
\* other non-empty value, and ToDo if the cell is empty or the table has no
\* Status column; every record is in the output whatever its status.
C14_StatusNormalized ==
    Cleaned =>
        /\ Len(Out) = Len(sheet.rows)
        /\ \A j \in 1..Len(Out) :
              LET raw == SourceStatus(Out[j])
                  out == Out[j].Status
              IN  /\ raw = "WeiKaiShi" => out = "ToDo"
                  /\ raw = "JinXingZhong" => out = "WIP"
                  /\ raw \in {"YiWanCheng", "WanCheng"} => out = "Done"
                  /\ raw = "ZuSe" => out = "Blocked"
                  /\ raw = "ZanTing" => out = "Pending"
                  /\ raw \in {"ToDo", "WIP", "Done", "Blocked", "Pending",
                              "QuXiao"} => out = raw
                  /\ raw = NaN => out = "ToDo"
                  /\ "Status" \notin sheet.columns => out = "ToDo"

\* A translated label and a label outside the vocabulary in one table.
C14_Witness ==
    /\ Cleaned
    /\ \E j \in 1..Len(Out) :
          SourceStatus(Out[j]) = "WanCheng" /\ Out[j].Status = "Done"
    /\ \E j \in 1..Len(Out) :
          SourceStatus(Out[j]) = "QuXiao" /\ Out[j].Status = "QuXiao"

-----------------------------------------------------------------------------
(* C15 *)

\* C15: a run whose load_data returned an error stops before the core: it
\* has no cleaned table, no metrics and no figure; a cleaned table or a
\* chart call exists only in a run whose load returned a table and no
\* error.
C15_LoadErrorSkipsCore ==
    /\ error # "None" =>
          /\ pc = "load error"
          /\ df_clean = EmptyDF
          /\ metrics = NoMetrics
          /\ fig = NoFig
    /\ (df_clean # EmptyDF \/ fig # NoFig) =>
          /\ error = "None"
          /\ df.rows # <<>>

\* A reload failed in a session that had drawn a chart.
C15_Witness ==
    /\ pc = "load error"
    /\ error # "None"
    /\ selected.set
    /\ full_legend # NoLegend

-----------------------------------------------------------------------------
(* C16 *)

\* The zero-based rank of team t in the lexicographically sorted distinct
\* team values (a value without a name sorting first).
LexRank(teams, t) ==
    Cardinality({u \in teams : LexTeamKey(u) < LexTeamKey(t)})

\* C16: every selected event of every view is drawn in the colour of its
\* team: the colour of the preferred-colour table if the team is in it,
\* whatever other teams are present, else fallback_palette[r mod 10] with
\* r the rank of the team among the distinct teams of the full collection.
C16_EveryTeamColored ==
    (Cleaned /\ Out # <<>>) =>
        \A j \in 1..Len(Out) :
            Selected(Out[j]) =>
                \E a \in 1..Len(fig.traces) :
                    /\ fig.traces[a].EventName = Out[j].EventName
                    /\ fig.traces[a].color =
                          IF Out[j].Team \in DefaultTeams
                            THEN default_colors(Out[j].Team)
                            ELSE plotly_colors[
                                   (LexRank(TeamsOf(Out), Out[j].Team) % 10) + 1]

-----------------------------------------------------------------------------
(* C17 *)

\* C17: when the selection sets admit no event the chart call returns None
\* and nothing of a figure (no trace, no colour, no height, no viewport) is
\* computed, and main stops at its warning; the call returns None in no
\* other case.
C17_EmptyFilterNoChart ==
    pc \in {"rendered", "no match", "KeyError"} =>
        /\ (\A j \in 1..Len(Out) : ~Selected(Out[j])) <=> pc = "no match"
        /\ pc = "no match" => fig = NoFigure("None")

\* Every selection set is non-empty and together they admit none of the
\* two events, one of which has no team.
C17_Witness ==
    /\ pc = "no match"
    /\ Len(Out) = 2
    /\ selected.teams # {}
    /\ selected.status # {}
    /\ \E j \in 1..2 : Out[j].Team = NaN
    /\ \A j \in 1..2 : ~Selected(Out[j])

-----------------------------------------------------------------------------
(* C18 *)

\* C18: in every chart the lane y of every drawn event lies within the
\* extent [-0.5, k - 0.5] of the 'today' line and below the 'today' label
\* at y = k, k being the number of drawn events.
C18_TodayLineSpansLanes ==
    pc = "rendered" =>
        \A a \in 1..Len(fig.traces) :
            /\ -1 <= 2 * fig.traces[a].y
            /\ 2 * fig.traces[a].y <= fig.today_y1_x2
            /\ fig.traces[a].y < fig.today_label_y

====
